---- MODULE Spec2Model ----
(***************************************************************************)
(* Voice-activity segmentation engine of medi-bridge-client:               *)
(* the useAudioRecorder hook (WAV / raw-PCM draft,                         *)
(* src/src/hooks/useAudioRecorder.ts lines 1-429).                         *)
(*                                                                         *)
(* The hook's refs are the state.  Every handler that runs to completion   *)
(* on the event loop is one action: the interval callback checkSilence,    *)
(* the capture callback (port.onmessage / onaudioprocess), pause, resume,  *)
(* stop.  startRecording has two awaits, so it is three actions.  Wall     *)
(* clock time (Date.now()) is a variable advanced by Elapse.               *)
(*                                                                         *)
(* Ticks are not tied to the clock: timers fire late and bunch up, and a   *)
(* second start() without stop() leaves two drivers running, so any number *)
(* of ticks may fall into one 100 ms step.  One startRecording() is in     *)
(* flight at a time.  The verdict of isSilent is an input of the tick.     *)
(***************************************************************************)
EXTENDS Integers, Sequences, FiniteSets, TLC

\* ---------------------------------------------------------------- bounds
\* largest value a streak counter is allowed to reach in the model
MaxStreak == 6
\* number of 100 ms steps the wall clock may advance
MaxClock == 9
\* number of PCM blocks the capture callback delivers in a run
MaxBlocks == 2
\* number of startRecording() calls in a run
MaxStarts == 2
\* number of samples in one PCM block
SamplesPerBlock == 2
\* starts and PCM blocks of a run in which the paused time is measured
PauseStarts == 1
PauseBlocks == 1
\* number of ticks of a run that is fed one verdict per frame
MaxVerdicts == 15
\* a longer minSpeechDuration option tried in those runs
LongMinSpeechDuration == 1200
\* scenario A and B of spec section 8: 10 silent, 5 speech, 20 silent frames
ScenarioLeadSilent == 10
ScenarioSpeech == 5
ScenarioTailSilent == 20
\* the minSpeechDuration option of scenario B
ScenarioBMinSpeechDuration == 500
\* clips submitted to App in a run of its upload handlers
MaxClips == 3
\* consultations started in such a run
MaxConsultations == 2
\* the per-utterance-recorder draft: frames of a run, and a
\* minSpeechDuration above its least closure duration
SegFrames == 47
SegLongMinSpeechDuration == 2400
\* samples handed to the encoder: at most MaxSamples of them, each a
\* multiple of 1/SampleDen between -MaxSampleNum/SampleDen and
\* MaxSampleNum/SampleDen, which reaches outside [-1, 1].  The denominator
\* is not a power of two, so that scaled samples have fractions of every
\* size; a Float32 sample lies within 2^-24 of such a value, relatively,
\* which changes none of the integers stored.
MaxSamples == 2
SampleDen == 5
MaxSampleNum == 7

\* ------------------------------------------------------ program constants
MIN_SPEECH_FRAMES == 5
MIN_SILENCE_FRAMES == 5
\* period of the tick driver, and the per-frame back-dating factor
FrameIntervalMs == 100
\* option minSpeechDuration as passed by App (and the hook's default)
DefaultMinSpeechDuration == 800
\* option silenceDuration as passed by App (and the hook's default)
DefaultSilenceDuration == 2000

VARIABLES
    isRecording,              \* isRecordingRef
    isPaused,                 \* isPausedRef
    isPausedRecording,        \* isPausedRecordingRef
    isSpeechDetected,         \* isSpeechDetectedRef
    speechStartTime,          \* speechStartTimeRef
    consecutiveSilentFrames,  \* consecutiveSilentFramesRef
    consecutiveSpeechFrames,  \* consecutiveSpeechFramesRef
    currentPcmData,           \* currentPcmDataRef: sequence of PCM blocks
    streamRef,                \* 0 is null, k is the stream of the k-th start
    audioContextRef,
    analyserRef,
    sourceRef,
    processorRef,
    checkSilenceIntervalRef,  \* 0 is undefined, k is the k-th interval id
    activeIntervals,          \* interval ids whose timer is still running
    liveStreams,              \* streams whose tracks have not been stopped
    openContexts,             \* audio contexts that have not been closed
    connectedProcessors,      \* processor nodes that still deliver PCM
    startPc,                  \* position of the startRecording() in flight
    startCount,               \* number of startRecording() calls so far
    pcmCount,                 \* number of PCM blocks delivered so far
    now,                      \* Date.now()
    fired,                    \* callbacks invoked by the last handler, in order
    last,                     \* the last handler that ran, and its input/result
    options,                  \* the options the hook was called with
    limits,                   \* the horizon of the run: caps of the counters
    hist,                     \* what has been observed of the run so far
    calc,                     \* input and result of a pure function applied
    app,                      \* App: voiceClips, pendingClipIdRef, uploads
    draft                     \* the refs of the per-utterance-recorder draft

refs == <<isRecording, isPaused, isPausedRecording, isSpeechDetected,
          speechStartTime, consecutiveSilentFrames, consecutiveSpeechFrames,
          currentPcmData, streamRef, audioContextRef, analyserRef, sourceRef,
          processorRef, checkSilenceIntervalRef>>
env == <<activeIntervals, liveStreams, openContexts, connectedProcessors,
         startPc, startCount, pcmCount, now>>
aux == <<options, limits, hist, calc, app, draft>>
vars == <<refs, env, fired, last, aux>>

\* the options the hook is called with; silenceDuration is destructured
\* (line 87) and read nowhere
HookOptions(m) ==
    [minSpeechDuration |-> m, silenceDuration |-> DefaultSilenceDuration]

\* option minSpeechDuration (line 88), fixed for the life of the hook
minSpeechDuration == options.minSpeechDuration

\* the state-machine part of the refs (what a tick or a PCM delivery may touch)
engine == <<isSpeechDetected, speechStartTime, consecutiveSilentFrames,
            consecutiveSpeechFrames, currentPcmData>>

\* ------------------------------------------------------------- callbacks
NoBlob == [type |-> "null", samples |-> <<>>]
Ev(cb, duration, blob) == [cb |-> cb, duration |-> duration, blob |-> blob]
EvSpeechStart == Ev("onSpeechStart", 0, NoBlob)
EvError == Ev("onError", 0, NoBlob)
EvSpeechEnd(d) == Ev("onSpeechEnd", d, NoBlob)
EvSilenceSubmit(b, d) == Ev("onSilenceSubmit", d, b)
EvDataAvailable(b) == Ev("onDataAvailable", 0, b)

\* the three callbacks of one emitted clip, in the order the code calls them
EmitClip_dataFirst(b, d) ==
    <<EvDataAvailable(b), EvSpeechEnd(d), EvSilenceSubmit(b, d)>>
EmitClip(b, d) == <<EvSpeechEnd(d), EvSilenceSubmit(b, d), EvDataAvailable(b)>>

\* the handler that ran, its input or result, and the branch it took
Op(op, arg, path) == [op |-> op, arg |-> arg, path |-> path]

\* --------------------------------------------------------- pure functions
\* mergeFloat32Arrays: the blocks' samples, concatenated in array order
RECURSIVE mergeFloat32Arrays(_)
mergeFloat32Arrays_lastOnly(arrays) ==
    IF arrays = <<>> THEN <<>> ELSE arrays[Len(arrays)]
mergeFloat32Arrays(arrays) ==
    IF arrays = <<>> THEN <<>>
    ELSE Head(arrays) \o mergeFloat32Arrays(Tail(arrays))

\* encodeWAV: a Blob of type audio/wav carrying the merged samples
encodeWAV(samples) == [type |-> "audio/wav", samples |-> samples]

\* getCurrentWavBlob: null when no block is buffered
getCurrentWavBlob(pcmData) ==
    IF Len(pcmData) = 0 THEN NoBlob
    ELSE encodeWAV(mergeFloat32Arrays(pcmData))

\* ---- the bytes of the WAV file
SAMPLE_RATE == 16000
CHANNELS == 1
BITS_PER_SAMPLE == 16

\* str.charCodeAt for the characters of the chunk tags
charCodeAt ==
    [c \in {"R", "I", "F", "W", "A", "V", "E", "f", "m", "t", " ", "d", "a"} |->
        CASE c = "R" -> 82  [] c = "I" -> 73  [] c = "F" -> 70
          [] c = "W" -> 87  [] c = "A" -> 65  [] c = "V" -> 86
          [] c = "E" -> 69  [] c = "f" -> 102 [] c = "m" -> 109
          [] c = "t" -> 116 [] c = " " -> 32  [] c = "d" -> 100
          [] c = "a" -> 97]

\* a DataView write: bytes stored from the byte offset on (the byte at
\* offset o is element o + 1 of the buffer)
WriteAt(view, offset, bytes) ==
    [i \in 1..Len(view) |->
        IF i > offset /\ i <= offset + Len(bytes)
        THEN bytes[i - offset] ELSE view[i]]

\* writeString: one setUint8 per character, given as a sequence of characters
writeString(view, offset, str) ==
    WriteAt(view, offset, [i \in 1..Len(str) |-> charCodeAt[str[i]] % 256])

\* DataView.setUint32 and setUint16 with littleEndian = true; the 32-bit
\* value is taken as its low and high 16-bit halves
setUint32_bigEndian(view, offset, value) ==
    LET lo == value % 65536
        hi == (value \div 65536) % 65536
    IN  WriteAt(view, offset, <<hi \div 256, hi % 256,
                                lo \div 256, lo % 256>>)

setUint32(view, offset, value) ==
    LET lo == value % 65536
        hi == (value \div 65536) % 65536
    IN  WriteAt(view, offset, <<lo % 256, lo \div 256,
                                hi % 256, hi \div 256>>)

setUint16(view, offset, value) ==
    LET u == value % 65536
    IN  WriteAt(view, offset, <<u % 256, u \div 256>>)

\* DataView.setInt16 of the number num/den with littleEndian = true: the
\* number is truncated toward zero and taken modulo 2^16
Truncate(num, den) ==
    IF num >= 0 THEN num \div den ELSE -((-num) \div den)

setInt16_bigEndian(view, offset, num, den) ==
    LET u == Truncate(num, den) % 65536
    IN  WriteAt(view, offset, <<u \div 256, u % 256>>)

setInt16(view, offset, num, den) ==
    LET u == Truncate(num, den) % 65536
    IN  WriteAt(view, offset, <<u % 256, u \div 256>>)

\* Math.max(-1, Math.min(1, x)) on a sample x = n/SampleDen
Min(a, b) == IF a <= b THEN a ELSE b
Max(a, b) == IF a >= b THEN a ELSE b
ClampSample_none(n) == n

ClampSample(n) == Max(-SampleDen, Min(SampleDen, n))

\* floatTo16BitPCM: each sample clamped, scaled by 0x8000 when negative and
\* by 0x7FFF otherwise, and stored as an Int16, two bytes further on each
RECURSIVE floatTo16BitPCM(_, _, _)
floatTo16BitPCM(view, offset, input) ==
    IF input = <<>> THEN view
    ELSE LET s == ClampSample(Head(input))
             scaled == IF s < 0 THEN s * 32768 ELSE s * 32767
         IN  floatTo16BitPCM(setInt16(view, offset, scaled, SampleDen),
                             offset + 2, Tail(input))

\* the ArrayBuffer that encodeWAV fills: 44 header bytes and the samples
encodeWAVBuffer(samples) ==
    LET buffer == [i \in 1..(44 + Len(samples) * 2) |-> 0]
        v1  == writeString(buffer, 0, <<"R", "I", "F", "F">>)
        v2  == setUint32(v1, 4, 36 + Len(samples) * 2)
        v3  == writeString(v2, 8, <<"W", "A", "V", "E">>)
        v4  == writeString(v3, 12, <<"f", "m", "t", " ">>)
        v5  == setUint32(v4, 16, 16)
        v6  == setUint16(v5, 20, 1)
        v7  == setUint16(v6, 22, CHANNELS)
        v8  == setUint32(v7, 24, SAMPLE_RATE)
        v9  == setUint32(v8, 28,
                         (SAMPLE_RATE * CHANNELS * BITS_PER_SAMPLE) \div 8)
        v10 == setUint16(v9, 32, (CHANNELS * BITS_PER_SAMPLE) \div 8)
        v11 == setUint16(v10, 34, BITS_PER_SAMPLE)
        v12 == writeString(v11, 36, <<"d", "a", "t", "a">>)
        v13 == setUint32(v12, 40, Len(samples) * 2)
    IN  floatTo16BitPCM(v13, 44, samples)

\* ---- the energy classifier
FftSize == 256
SkipBins == 4
\* the silenceThreshold option, 0.15, as a fraction
SilenceThresholdNum == 15
SilenceThresholdDen == 100

\* analyser.frequencyBinCount: half the FFT size
frequencyBinCount == FftSize \div 2

\* analyser.getByteFrequencyData(dataArray): the magnitudes of the
\* frequency bins are copied to the front of the array and the elements
\* past frequencyBinCount are left as they were
getByteFrequencyData(dataArray, bins) ==
    [i \in 1..Len(dataArray) |->
        IF i <= frequencyBinCount THEN bins[i] ELSE dataArray[i]]

\* the loop of isSilent: the elements from index SkipBins on, added up
\* (by halves, the sum being the same in any order)
RECURSIVE SumRange(_, _, _)
SumRange(dataArray, lo, hi) ==
    IF lo > hi THEN 0
    ELSE IF lo = hi THEN dataArray[lo]
    ELSE LET mid == (lo + hi) \div 2
         IN  SumRange(dataArray, lo, mid) + SumRange(dataArray, mid + 1, hi)

SumFrom(dataArray, i) == SumRange(dataArray, i, Len(dataArray))

\* isSilent on a snapshot of bin magnitudes: sum, count and the verdict
\* sum / count / 255 < silenceThreshold
isSilent(bins) ==
    LET dataArray == getByteFrequencyData([i \in 1..FftSize |-> 0], bins)
        sum == SumFrom(dataArray, SkipBins + 1)
        count == Len(dataArray) - SkipBins
    IN  [sum |-> sum, count |-> count,
         silent |-> sum * SilenceThresholdDen
                       < SilenceThresholdNum * count * 255]

\* draw of AudioWaveform (part_000 lines 30-31, 59-77) on a snapshot, with
\* the threshold App passes (App.tsx line 479): the array has
\* frequencyBinCount elements, all of them are added up, and the indicator
\* is on when sum / bufferLength / 255 >= silenceThreshold
isSpeaking(bins) ==
    LET bufferLength == frequencyBinCount
        dataArray == getByteFrequencyData([i \in 1..bufferLength |-> 0], bins)
        sum == SumFrom(dataArray, 1)
    IN  [sum |-> sum, count |-> bufferLength,
         speaking |-> sum * SilenceThresholdDen
                         >= SilenceThresholdNum * bufferLength * 255]

\* the engine state of spec section 4.2, read off the refs
EngineState ==
    IF ~isRecording THEN "Idle"
    ELSE IF isSpeechDetected THEN "ListeningSpeech"
    ELSE "ListeningSilence"

\* ------------------------------------------------------------ observation
\* Nothing observed yet.  announced: onSpeechStart fired for an utterance
\* that has not ended; pausedMs: clock time that passed while that utterance
\* was paused (kept only when limits.pauses is set); the counts, the
\* durations given to onSpeechEnd and the verdicts of the evaluated ticks are
\* kept only when limits.history is set; sessionFrom: the number of blocks
\* delivered before the last start() returned true (kept only when
\* limits.sessions is set).
NoHistory ==
    [announced |-> FALSE, pausedMs |-> 0, nStart |-> 0, nEnd |-> 0,
     nClip |-> 0, durations |-> <<>>, verdicts |-> <<>>, sessionFrom |-> 0]

NoCalc == [fn |-> "none", input |-> <<>>, output |-> <<>>]

\* the durations passed to onSpeechEnd in a sequence of fired callbacks
RECURSIVE EndDurations(_)
EndDurations(f) ==
    IF f = <<>> THEN <<>>
    ELSE (IF Head(f).cb = "onSpeechEnd" THEN <<Head(f).duration>> ELSE <<>>)
         \o EndDurations(Tail(f))

\* the number of callbacks of the given name in a sequence of fired callbacks
CountCb(f, cb) == Cardinality({i \in DOMAIN f : f[i].cb = cb})

\* the observation after a step, from the handler that ran and what it fired
HistAfter ==
    LET started == CountCb(fired', "onSpeechStart") > 0
        ended == CountCb(fired', "onSpeechEnd") > 0
        discarded == last'.op = "tick" /\ last'.path = "tooShort"
        sessionReset == \/ last'.op = "stop"
                        \/ (last'.op = "startReturned" /\ last'.arg)
        boundary == started \/ ended \/ discarded \/ sessionReset
        evaluated == last'.op = "tick" /\ last'.path # "return"
    IN  [announced |-> IF started THEN TRUE
                       ELSE IF boundary THEN FALSE
                       ELSE hist.announced,
         pausedMs |-> IF boundary THEN 0
                      ELSE IF /\ limits.pauses
                              /\ last'.op = "elapse"
                              /\ isPaused
                              /\ hist.announced
                      THEN hist.pausedMs + FrameIntervalMs
                      ELSE hist.pausedMs,
         nStart |-> IF limits.history
                    THEN hist.nStart + CountCb(fired', "onSpeechStart")
                    ELSE hist.nStart,
         nEnd |-> IF limits.history
                  THEN hist.nEnd + CountCb(fired', "onSpeechEnd")
                  ELSE hist.nEnd,
         nClip |-> IF limits.history
                   THEN hist.nClip + CountCb(fired', "onDataAvailable")
                   ELSE hist.nClip,
         durations |-> IF limits.history
                       THEN hist.durations \o EndDurations(fired')
                       ELSE hist.durations,
         verdicts |-> IF limits.history /\ evaluated
                      THEN Append(hist.verdicts, ~last'.arg)
                      ELSE hist.verdicts,
         sessionFrom |-> IF /\ limits.sessions
                            /\ last'.op = "startReturned"
                            /\ last'.arg
                         THEN pcmCount
                         ELSE hist.sessionFrom]

\* every handler leaves the options and the horizon alone
Track ==
    /\ options' = options
    /\ limits' = limits
    /\ calc' = calc
    /\ draft' = draft
    /\ app' = app
    /\ hist' = HistAfter

\* App as mounted (App.tsx lines 34-46, 190): nothing shown, no consultation,
\* and the unmount cleanup of the effect with no dependencies (lines
\* 345-351) holding the isRecording of the first render.  recorderActive
\* stands for the hook's session, uploadedIn[k] for the conversation the
\* audio of clip k was uploaded to.
AppMounted ==
    [voiceClips |-> <<>>, pendingClipIdRef |-> 0, uploads |-> {},
     uploadedIn |-> <<>>, conversationIdRef |-> 0, consultations |-> 0,
     messages |-> <<>>, symptoms |-> 0, isRecording |-> FALSE,
     recorderActive |-> FALSE, mounted |-> TRUE,
     cleanupIsRecording |-> FALSE]

\* The per-utterance-recorder draft before any start (lines 465-485).
\* recorders[k] is the k-th MediaRecorder created: its state, whether its
\* dataavailable and stop events are still to be dispatched, the onstop
\* handler it holds and the duration that handler's closure captured.
\* intervals counts the running timers, due says that the period of the
\* timer has elapsed since the last tick; discardedUpTo is the number of
\* chunks delivered before the last discard.
DraftIdle ==
    [isRecording |-> FALSE, isPaused |-> FALSE, isSpeechDetected |-> FALSE,
     speechStartTime |-> 0, consecutiveSilentFrames |-> 0,
     consecutiveSpeechFrames |-> 0, streamRef |-> 0, analyserRef |-> 0,
     currentMediaRecorderRef |-> 0, recorders |-> <<>>,
     currentChunks |-> <<>>, chunkCount |-> 0,
     intervals |-> 0, intervalRefLive |-> FALSE, due |-> FALSE,
     startPc |-> "idle", startCount |-> 0, now |-> 0, discardedUpTo |-> 0]

\* ------------------------------------------------------------------ Init
InitState ==
    /\ isRecording = FALSE
    /\ isPaused = FALSE
    /\ isPausedRecording = FALSE
    /\ isSpeechDetected = FALSE
    /\ speechStartTime = 0
    /\ consecutiveSilentFrames = 0
    /\ consecutiveSpeechFrames = 0
    /\ currentPcmData = <<>>
    /\ streamRef = 0
    /\ audioContextRef = 0
    /\ analyserRef = 0
    /\ sourceRef = 0
    /\ processorRef = 0
    /\ checkSilenceIntervalRef = 0
    /\ activeIntervals = {}
    /\ liveStreams = {}
    /\ openContexts = {}
    /\ connectedProcessors = {}
    /\ startPc = "idle"
    /\ startCount = 0
    /\ pcmCount = 0
    /\ now = 10 * FrameIntervalMs
    /\ fired = <<>>
    /\ last = Op("init", FALSE, "")
    /\ app = AppMounted
    /\ draft = DraftIdle

\* the hook as App mounts it (App.tsx lines 293-296)
Init ==
    /\ InitState
    /\ options = HookOptions(DefaultMinSpeechDuration)
    /\ limits = [streak |-> MaxStreak, clock |-> MaxClock,
                 blocks |-> MaxBlocks, starts |-> MaxStarts,
                 history |-> FALSE, pauses |-> FALSE,
                 sessions |-> FALSE]
    /\ hist = NoHistory
    /\ calc = NoCalc

\* ----------------------------------------------------------------- clock
Elapse ==
    /\ now < (10 + limits.clock) * FrameIntervalMs
    /\ now' = now + FrameIntervalMs
    /\ fired' = <<>>
    /\ last' = Op("elapse", FALSE, "")
    /\ UNCHANGED <<refs, activeIntervals, liveStreams, openContexts,
                   connectedProcessors, startPc, startCount, pcmCount>>
    /\ Track

\* ------------------------------------------------- checkSilence (the tick)
\* line 168: the tick returns at once without an analyser, when not
\* recording, or when paused
TickSkipped_ignoresPause == analyserRef = 0 \/ ~isRecording
TickSkipped == analyserRef = 0 \/ ~isRecording \/ isPaused

\* lines 175-181: the streak counters after the verdict of this tick
SilentAfter_keptOnSpeech(silent) ==
    IF silent THEN consecutiveSilentFrames + 1 ELSE consecutiveSilentFrames
SilentAfter(silent) == IF silent THEN consecutiveSilentFrames + 1 ELSE 0
SpeechAfter(silent) == IF silent THEN 0 ELSE consecutiveSpeechFrames + 1

\* line 192: speech starts when no utterance is open and the run is long enough
SpeechStartCond_ignoresOpen(detected, speechFrames) ==
    speechFrames >= MIN_SPEECH_FRAMES
SpeechStartCond_late(detected, speechFrames) ==
    ~detected /\ speechFrames > MIN_SPEECH_FRAMES
SpeechStartCond(detected, speechFrames) ==
    ~detected /\ speechFrames >= MIN_SPEECH_FRAMES

\* line 194: the start time is back-dated by the length of the run
BackdatedStart_confirmationInstant(t, speechFrames) == t
BackdatedStart(t, speechFrames) == t - speechFrames * FrameIntervalMs

\* line 200: speech ends when an utterance is open and the silence is long enough
SpeechEndCond_late(detected, silentFrames) ==
    detected /\ silentFrames > MIN_SILENCE_FRAMES
SpeechEndCond(detected, silentFrames) ==
    detected /\ silentFrames >= MIN_SILENCE_FRAMES

\* lines 206 and 378: the utterance is long enough to be submitted
MeetsMinDuration_inverted(durationMs) == durationMs <= minSpeechDuration
MeetsMinDuration_strict(durationMs) == durationMs > minSpeechDuration
MeetsMinDuration(durationMs) == durationMs >= minSpeechDuration

\* lines 209 and 380: a clip is delivered only for a non-null blob
HasBlob(blob) == blob # NoBlob

\* raiseAt = 0: every callback returns; raiseAt = k: the k-th callback of
\* the submission (lines 213-218) throws, which ends the handler there
checkSilenceWith(silent, raiseAt) ==
    /\ activeIntervals # {}
    /\ IF TickSkipped
       THEN /\ raiseAt = 0
            /\ fired' = <<>>
            /\ last' = Op("tick", silent, "return")
            /\ UNCHANGED engine
       ELSE LET sil == SilentAfter(silent)
                sp == SpeechAfter(silent)
                starts == SpeechStartCond(isSpeechDetected, sp)
                detected1 == isSpeechDetected \/ starts
                start1 == IF starts THEN BackdatedStart(now, sp)
                          ELSE speechStartTime
                ends == SpeechEndCond(detected1, sil)
                speechDurationMs == now - start1
                blob == getCurrentWavBlob(currentPcmData)
                emit == ends /\ MeetsMinDuration(speechDurationMs) /\ HasBlob(blob)
                discard == ends /\ ~MeetsMinDuration(speechDurationMs)
                raised == emit /\ raiseAt > 0
                reset == (emit /\ ~raised) \/ discard
            IN  /\ sil <= limits.streak
                /\ sp <= limits.streak
                /\ raiseAt > 0 => emit
                /\ consecutiveSpeechFrames' = sp
                /\ consecutiveSilentFrames' = IF reset THEN 0 ELSE sil
                /\ isSpeechDetected' = IF reset THEN FALSE ELSE detected1
                /\ speechStartTime' = IF reset THEN 0 ELSE start1
                /\ currentPcmData' = IF reset THEN <<>> ELSE currentPcmData
                /\ fired' = (IF starts THEN <<EvSpeechStart>> ELSE <<>>)
                            \o (IF raised
                                THEN SubSeq(EmitClip(blob, speechDurationMs),
                                            1, raiseAt)
                                ELSE IF emit
                                THEN EmitClip(blob, speechDurationMs)
                                ELSE <<>>)
                /\ last' = Op("tick", silent,
                              IF raised THEN "raised"
                              ELSE IF emit THEN "submit"
                              ELSE IF discard THEN "tooShort"
                              ELSE IF ends THEN "nullBlob"
                              ELSE IF starts THEN "start"
                              ELSE "count")
    /\ UNCHANGED <<isRecording, isPaused, isPausedRecording, streamRef,
                   audioContextRef, analyserRef, sourceRef, processorRef,
                   checkSilenceIntervalRef, env>>
    /\ Track

\* the tick whose callbacks all return
checkSilence(silent) ==
    /\ activeIntervals # {}
    /\ checkSilenceWith(silent, 0)

\* ------------------------------------ capture callback (lines 262-266, 279-283)
\* line 263 / 280: a block is dropped only while recording is paused
PcmDropped == isPausedRecording

\* a PCM block: SamplesPerBlock samples, each known by its block, its index
\* in the block and the engine state it was captured in
Block(n) ==
    [k \in 1..SamplesPerBlock |->
        [block |-> n, idx |-> k, capturedIn |-> EngineState]]

onPcmMessage ==
    /\ connectedProcessors # {}
    /\ pcmCount < limits.blocks
    /\ pcmCount' = pcmCount + 1
    /\ currentPcmData' = IF PcmDropped THEN currentPcmData
                         ELSE Append(currentPcmData, Block(pcmCount + 1))
    /\ fired' = <<>>
    /\ last' = Op("pcm", FALSE, IF PcmDropped THEN "return" ELSE "push")
    /\ UNCHANGED <<isRecording, isPaused, isPausedRecording, isSpeechDetected,
                   speechStartTime, consecutiveSilentFrames,
                   consecutiveSpeechFrames, streamRef, audioContextRef,
                   analyserRef, sourceRef, processorRef,
                   checkSilenceIntervalRef, activeIntervals, liveStreams,
                   openContexts, connectedProcessors, startPc, startCount, now>>
    /\ Track

\* ------------------------------------------------------- pause and resume
\* line 347: pausing a paused session returns at once
PauseSkipped == isPaused
\* line 355: resuming a session that is not paused returns at once
ResumeSkipped == ~isPaused

pauseRecording_toggles ==
    /\ isPaused' = ~isPaused
    /\ isPausedRecording' = ~isPausedRecording
    /\ fired' = <<>>
    /\ last' = Op("pause", FALSE, IF PauseSkipped THEN "return" ELSE "paused")
    /\ UNCHANGED <<isRecording, engine, streamRef, audioContextRef,
                   analyserRef, sourceRef, processorRef,
                   checkSilenceIntervalRef, env>>
    /\ Track
pauseRecording ==
    /\ isPaused' = (IF PauseSkipped THEN isPaused ELSE TRUE)
    /\ isPausedRecording' = (IF PauseSkipped THEN isPausedRecording ELSE TRUE)
    /\ fired' = <<>>
    /\ last' = Op("pause", FALSE, IF PauseSkipped THEN "return" ELSE "paused")
    /\ UNCHANGED <<isRecording, engine, streamRef, audioContextRef,
                   analyserRef, sourceRef, processorRef,
                   checkSilenceIntervalRef, env>>
    /\ Track

resumeRecording ==
    /\ isPaused' = (IF ResumeSkipped THEN isPaused ELSE FALSE)
    /\ isPausedRecording' = (IF ResumeSkipped THEN isPausedRecording ELSE FALSE)
    /\ fired' = <<>>
    /\ last' = Op("resume", FALSE,
                  IF ResumeSkipped THEN "return" ELSE "resumed")
    /\ UNCHANGED <<isRecording, engine, streamRef, audioContextRef,
                   analyserRef, sourceRef, processorRef,
                   checkSilenceIntervalRef, env>>
    /\ Track

\* ---------------------------------------------- startRecording (293-344)
\* The call runs up to `await getUserMedia` (line 296).
startRecording ==
    /\ startPc = "idle"
    /\ startCount < limits.starts
    /\ startCount' = startCount + 1
    /\ startPc' = "awaitMedia"
    /\ fired' = <<>>
    /\ last' = Op("start", FALSE, "")
    /\ UNCHANGED <<refs, activeIntervals, liveStreams, openContexts,
                   connectedProcessors, pcmCount, now>>
    /\ Track

\* lines 339-343: the catch block reports the error and returns false; it
\* releases nothing
StartCatch == <<EvError>>

\* getUserMedia rejects (no device, permission denied): line 296 throws.
getUserMediaRejected ==
    /\ startPc = "awaitMedia"
    /\ startPc' = "idle"
    /\ fired' = StartCatch
    /\ last' = Op("startReturned", FALSE, "catch")
    /\ UNCHANGED <<refs, activeIntervals, liveStreams, openContexts,
                   connectedProcessors, startCount, pcmCount, now>>
    /\ Track

\* getUserMedia resolves: lines 306-321 run up to `await addModule` (259).
\* contextOk = FALSE is `new AudioContext` (line 309) throwing.
getUserMediaResolved(contextOk) ==
    /\ startPc = "awaitMedia"
    /\ streamRef' = startCount
    /\ liveStreams' = liveStreams \cup {startCount}
    /\ IF contextOk
       THEN /\ audioContextRef' = startCount
            /\ analyserRef' = startCount
            /\ sourceRef' = startCount
            /\ openContexts' = openContexts \cup {startCount}
            /\ startPc' = "awaitWorklet"
            /\ fired' = <<>>
            /\ last' = Op("startMedia", TRUE, "")
       ELSE /\ UNCHANGED <<audioContextRef, analyserRef, sourceRef,
                           openContexts>>
            /\ startPc' = "idle"
            /\ fired' = StartCatch
            /\ last' = Op("startReturned", FALSE, "catch")
    /\ UNCHANGED <<isRecording, isPaused, isPausedRecording, engine,
                   processorRef, checkSilenceIntervalRef, activeIntervals,
                   connectedProcessors, startCount, pcmCount, now>>
    /\ Track

\* addModule settles: the worklet node (260-272) or the ScriptProcessor
\* fallback (273-288) is created and connected, then lines 322-338 run.
\* processorOk = FALSE is createScriptProcessor (line 277) throwing in the
\* fallback, which the catch of startRecording receives.
SessionBuffer_kept(pcm) == pcm
SessionBuffer(pcm) == <<>>

createAudioWorkletSettled(processorOk) ==
    /\ startPc = "awaitWorklet"
    /\ startPc' = "idle"
    /\ IF processorOk
       THEN /\ processorRef' = startCount
            \* a node of an already closed context processes no audio
            /\ connectedProcessors' =
                   IF startCount \in openContexts
                   THEN connectedProcessors \cup {startCount}
                   ELSE connectedProcessors
            /\ isRecording' = TRUE
            /\ isPaused' = FALSE
            /\ isPausedRecording' = FALSE
            /\ isSpeechDetected' = FALSE
            /\ speechStartTime' = 0
            /\ consecutiveSilentFrames' = 0
            /\ consecutiveSpeechFrames' = 0
            /\ currentPcmData' = SessionBuffer(currentPcmData)
            /\ checkSilenceIntervalRef' = startCount
            /\ activeIntervals' = activeIntervals \cup {startCount}
            /\ fired' = <<>>
            /\ last' = Op("startReturned", TRUE, "started")
       ELSE /\ UNCHANGED <<processorRef, connectedProcessors, isRecording,
                           isPaused, isPausedRecording, engine,
                           checkSilenceIntervalRef, activeIntervals>>
            /\ fired' = StartCatch
            /\ last' = Op("startReturned", FALSE, "catch")
    /\ UNCHANGED <<streamRef, audioContextRef, analyserRef, sourceRef,
                   liveStreams, openContexts, startCount, pcmCount, now>>
    /\ Track

\* ----------------------------------------------- stopRecording (362-418)
\* line 374: the condition under which stop() looks at the open utterance
StopFlushCond_ignoresStreak(detected, speechFrames) == detected
StopFlushCond(detected, speechFrames) ==
    detected /\ speechFrames >= MIN_SPEECH_FRAMES

\* lines 365-367: clearInterval of the id held by the ref
IntervalsAfterStop == activeIntervals \ {checkSilenceIntervalRef}

\* lines 391-415 leave isSpeechDetectedRef and speechStartTimeRef as they are
stopRecording ==
    LET speechDurationMs == now - speechStartTime
        blob == getCurrentWavBlob(currentPcmData)
        emit == /\ StopFlushCond(isSpeechDetected, consecutiveSpeechFrames)
                /\ MeetsMinDuration(speechDurationMs)
                /\ HasBlob(blob)
    IN  /\ activeIntervals' = IntervalsAfterStop
        /\ isPaused' = FALSE
        /\ isPausedRecording' = FALSE
        /\ isRecording' = FALSE
        /\ fired' = IF emit THEN EmitClip(blob, speechDurationMs) ELSE <<>>
        /\ connectedProcessors' =
               connectedProcessors \ {processorRef, audioContextRef}
        /\ processorRef' = 0
        /\ sourceRef' = 0
        /\ openContexts' = openContexts \ {audioContextRef}
        /\ audioContextRef' = 0
        /\ liveStreams' = liveStreams \ {streamRef}
        /\ streamRef' = 0
        /\ analyserRef' = 0
        /\ currentPcmData' = <<>>
        /\ consecutiveSilentFrames' = 0
        /\ consecutiveSpeechFrames' = 0
        /\ last' = Op("stop", ~isRecording,
                      IF emit THEN "submit" ELSE "noSubmit")
        /\ UNCHANGED <<isSpeechDetected, speechStartTime,
                       checkSilenceIntervalRef, startPc, startCount,
                       pcmCount, now>>
        /\ Track

\* ------------------------------------------------------------------ Next
Next ==
    \/ Elapse
    \/ \E silent \in BOOLEAN : checkSilence(silent)
    \/ onPcmMessage
    \/ pauseRecording
    \/ resumeRecording
    \/ startRecording
    \/ getUserMediaRejected
    \/ \E contextOk \in BOOLEAN : getUserMediaResolved(contextOk)
    \/ \E processorOk \in BOOLEAN : createAudioWorkletSettled(processorOk)
    \/ stopRecording

Spec == Init /\ [][Next]_vars

\* One session of the hook, with the clock time spent paused inside an
\* utterance measured.
InitPause ==
    /\ InitState
    /\ options = HookOptions(DefaultMinSpeechDuration)
    /\ limits = [streak |-> MaxStreak, clock |-> MaxClock,
                 blocks |-> PauseBlocks, starts |-> PauseStarts,
                 history |-> FALSE, pauses |-> TRUE,
                 sessions |-> FALSE]
    /\ hist = NoHistory
    /\ calc = NoCalc

SpecPause == InitPause /\ [][Next]_vars

\* Sessions one after the other, with the count of the blocks delivered
\* before each session observed.
InitSessions ==
    /\ InitState
    /\ options = HookOptions(DefaultMinSpeechDuration)
    /\ limits = [streak |-> MaxStreak, clock |-> MaxClock,
                 blocks |-> MaxBlocks, starts |-> MaxStarts,
                 history |-> FALSE, pauses |-> FALSE,
                 sessions |-> TRUE]
    /\ hist = NoHistory
    /\ calc = NoCalc

SpecSessions == InitSessions /\ [][Next]_vars

\* One session in which the consumer's callbacks may throw during a
\* submission.
checkSilenceRaising ==
    /\ activeIntervals # {}
    /\ \E silent \in BOOLEAN, raiseAt \in 1..3 :
           checkSilenceWith(silent, raiseAt)

InitRaise ==
    /\ InitState
    /\ options = HookOptions(DefaultMinSpeechDuration)
    /\ limits = [streak |-> MaxStreak, clock |-> MaxClock,
                 blocks |-> PauseBlocks, starts |-> PauseStarts,
                 history |-> FALSE, pauses |-> FALSE,
                 sessions |-> FALSE]
    /\ hist = NoHistory
    /\ calc = NoCalc

NextRaise ==
    \/ Next
    \/ checkSilenceRaising

SpecRaise == InitRaise /\ [][NextRaise]_vars

\* ------------------------------------------------- one verdict per frame
\* A single session that starts without failure and is never paused or
\* stopped.  Each frame the clock advances by one interval of the tick
\* driver (line 335), the capture callback delivers a block, and the tick
\* takes its verdict.
SessionStarts ==
    \/ startRecording
    \/ getUserMediaResolved(TRUE)
    \/ createAudioWorkletSettled(TRUE)

FrameElapse ==
    /\ isRecording
    /\ last.op \in {"startReturned", "tick"}
    /\ Elapse

FramePcm ==
    /\ last.op = "elapse"
    /\ onPcmMessage

FrameTick ==
    /\ last.op = "pcm"
    /\ \E silent \in BOOLEAN : checkSilence(silent)

InitVerdicts ==
    /\ InitState
    /\ \E m \in {DefaultMinSpeechDuration, LongMinSpeechDuration} :
           options = HookOptions(m)
    /\ limits = [streak |-> MaxVerdicts, clock |-> MaxVerdicts,
                 blocks |-> MaxVerdicts, starts |-> 1,
                 history |-> TRUE, pauses |-> FALSE,
                 sessions |-> FALSE]
    /\ hist = NoHistory
    /\ calc = NoCalc

NextVerdicts ==
    \/ SessionStarts
    \/ FrameElapse
    \/ FramePcm
    \/ FrameTick

SpecVerdicts == InitVerdicts /\ [][NextVerdicts]_vars

\* The verdict sequence of scenarios A and B: is frame n silent?
ScenarioFrames == ScenarioLeadSilent + ScenarioSpeech + ScenarioTailSilent
ScenarioSilent(n) ==
    n <= ScenarioLeadSilent \/ n > ScenarioLeadSilent + ScenarioSpeech

ScenarioTick ==
    /\ last.op = "pcm"
    /\ checkSilence(ScenarioSilent(Len(hist.verdicts) + 1))

InitScenario ==
    /\ InitState
    /\ \E m \in {0, ScenarioBMinSpeechDuration} :
           options = HookOptions(m)
    /\ limits = [streak |-> ScenarioFrames, clock |-> ScenarioFrames,
                 blocks |-> ScenarioFrames, starts |-> 1,
                 history |-> TRUE, pauses |-> FALSE,
                 sessions |-> FALSE]
    /\ hist = NoHistory
    /\ calc = NoCalc

NextScenario ==
    \/ SessionStarts
    \/ FrameElapse
    \/ FramePcm
    \/ ScenarioTick

SpecScenario == InitScenario /\ [][NextScenario]_vars

\* ------------------------------------------------- the encoder on its own
\* encodeWAV applied to a sample array; the hook is left as constructed.
SampleValues == (-MaxSampleNum)..MaxSampleNum
SampleArrays ==
    UNION {[1..n -> SampleValues] : n \in 0..MaxSamples}

ApplyEncodeWAV ==
    /\ calc.fn = "none"
    /\ calc' = [fn |-> "encodeWAV", input |-> calc.input,
                output |-> encodeWAVBuffer(calc.input)]
    /\ UNCHANGED <<refs, env, fired, last, options, limits, hist, app,
                   draft>>

InitWav ==
    /\ InitState
    /\ options = HookOptions(DefaultMinSpeechDuration)
    /\ limits = [streak |-> 0, clock |-> 0, blocks |-> 0, starts |-> 0,
                 history |-> FALSE, pauses |-> FALSE,
                 sessions |-> FALSE]
    /\ hist = NoHistory
    /\ \E samples \in SampleArrays :
           calc = [fn |-> "none", input |-> samples, output |-> <<>>]

NextWav == ApplyEncodeWAV

SpecWav == InitWav /\ [][NextWav]_vars

\* ------------------------------------------------ App's upload handlers
\* (App.tsx lines 189-351.)  Clip k has id k, and the text recognized in its
\* audio is written k; 0 is null / none.  Conversation ids are 1, 2, ...

\* handleStartConsultation (lines 304-326): the session is created, its id
\* stored, and the recorder started; isRecording is set if it has started
handleStartConsultation(started) ==
    /\ app.mounted
    /\ ~app.isRecording
    /\ app.consultations < MaxConsultations
    /\ app' = [app EXCEPT !.consultations = app.consultations + 1,
                          !.conversationIdRef = app.consultations + 1,
                          !.isRecording = started,
                          !.recorderActive = started]
    /\ last' = Op("startConsultation", started, "")
    /\ UNCHANGED <<refs, env, fired, options, limits, hist, calc, draft>>

\* onDataAvailable up to its await (lines 194-206): the upload of clip k is
\* started unless no conversation id is stored
UploadsAfter(k) ==
    IF app.conversationIdRef = 0 THEN app.uploads ELSE app.uploads \cup {k}

\* The hook hands a clip to onSilenceSubmit and then to onDataAvailable in
\* one handler (lines 214-218 of the hook): the clip gets a new id and is
\* appended to voiceClips, pendingClipIdRef is set to the id, and the upload
\* of its audio starts.
onClipSubmitted ==
    LET clipId == Len(app.uploadedIn) + 1
    IN  /\ app.recorderActive
        /\ Len(app.uploadedIn) < MaxClips
        /\ app' = [app EXCEPT
                       !.voiceClips =
                           Append(app.voiceClips,
                                  [id |-> clipId, transcription |-> 0]),
                       !.pendingClipIdRef = clipId,
                       !.uploads = UploadsAfter(clipId),
                       !.uploadedIn =
                           Append(app.uploadedIn, app.conversationIdRef)]
        /\ last' = Op("clipSubmitted", FALSE, "")
        /\ UNCHANGED <<refs, env, fired, options, limits, hist, calc, draft>>

\* the updater passed to setVoiceClips (lines 233-239): the clip whose id is
\* the target gets the text
WithTranscription(clips, target, text) ==
    [i \in 1..Len(clips) |->
        IF clips[i].id = target
        THEN [id |-> clips[i].id, transcription |-> text]
        ELSE clips[i]]

\* uploadAudio of clip u resolves (lines 206-254): a message with the text
\* is added, the text is stored on the pending clip, and the symptoms
\* matched are shown.  The updater reads pendingClipIdRef.current when
\* React runs it: inside the setVoiceClips call (eager), or at the next
\* render, after line 240 has set the ref to null.
uploadAudioResolved(u, eager) ==
    LET target == IF eager THEN app.pendingClipIdRef ELSE 0
    IN  /\ u \in app.uploads
        /\ app' = [app EXCEPT
                       !.messages = Append(app.messages, u),
                       !.voiceClips =
                           IF app.pendingClipIdRef # 0
                           THEN WithTranscription(app.voiceClips, target, u)
                           ELSE app.voiceClips,
                       !.pendingClipIdRef = 0,
                       !.symptoms = u,
                       !.uploads = app.uploads \ {u}]
        /\ last' = Op("uploadResolved", eager, "")
        /\ UNCHANGED <<refs, env, fired, options, limits, hist, calc, draft>>

\* uploadAudio of clip u rejects (lines 255-257): logged, nothing stored
uploadAudioRejected(u) ==
    /\ u \in app.uploads
    /\ app' = [app EXCEPT !.uploads = app.uploads \ {u}]
    /\ last' = Op("uploadRejected", FALSE, "")
    /\ UNCHANGED <<refs, env, fired, options, limits, hist, calc, draft>>

\* handleEndConsultation (lines 329-342): stopRecording may flush a last
\* clip, whose upload starts while the conversation id is still stored;
\* then everything shown and both refs are cleared
handleEndConsultation(flush) ==
    LET clipId == Len(app.uploadedIn) + 1
    IN  /\ app.mounted
        /\ app.isRecording
        /\ flush => (app.recorderActive /\ Len(app.uploadedIn) < MaxClips)
        /\ app' = [app EXCEPT
                       !.uploads = IF flush THEN UploadsAfter(clipId)
                                   ELSE app.uploads,
                       !.uploadedIn =
                           IF flush
                           THEN Append(app.uploadedIn, app.conversationIdRef)
                           ELSE app.uploadedIn,
                       !.recorderActive = FALSE,
                       !.isRecording = FALSE,
                       !.messages = <<>>,
                       !.symptoms = 0,
                       !.voiceClips = <<>>,
                       !.conversationIdRef = 0,
                       !.pendingClipIdRef = 0]
        /\ last' = Op("endConsultation", flush, "")
        /\ UNCHANGED <<refs, env, fired, options, limits, hist, calc, draft>>

\* the cleanup of the effect at lines 345-351, run when App unmounts:
\* stopRecording is called if the isRecording it holds is true
unmount ==
    /\ app.mounted
    /\ app' = [app EXCEPT
                   !.mounted = FALSE,
                   !.recorderActive = IF app.cleanupIsRecording THEN FALSE
                                      ELSE app.recorderActive]
    /\ last' = Op("unmount", app.cleanupIsRecording, "")
    /\ UNCHANGED <<refs, env, fired, options, limits, hist, calc, draft>>

InitApp ==
    /\ InitState
    /\ options = HookOptions(DefaultMinSpeechDuration)
    /\ limits = [streak |-> 0, clock |-> 0, blocks |-> 0, starts |-> 0,
                 history |-> FALSE, pauses |-> FALSE,
                 sessions |-> FALSE]
    /\ hist = NoHistory
    /\ calc = NoCalc

NextApp ==
    \/ \E started \in BOOLEAN : handleStartConsultation(started)
    \/ \E flush \in BOOLEAN : handleEndConsultation(flush)
    \/ unmount
    \/ onClipSubmitted
    \/ \E u \in 1..MaxClips, eager \in BOOLEAN : uploadAudioResolved(u, eager)
    \/ \E u \in 1..MaxClips : uploadAudioRejected(u)

SpecApp == InitApp /\ [][NextApp]_vars

\* ------------------------------------ the per-utterance-recorder draft
\* (useAudioRecorder.ts lines 431-774.)  One MediaRecorder per utterance;
\* stopping it is asynchronous: stop() makes it inactive at once and its
\* last dataavailable and its stop event are dispatched in a later task.
\* The draft is followed through sessions that are never paused.
SEG_MIN_SPEECH_FRAMES == 3
SEG_MIN_SILENCE_FRAMES == 20

NewRecorder ==
    [state |-> "recording", pending |-> FALSE, onstop |-> "null",
     duration |-> 0]

\* startCurrentSegment (lines 530-538)
startCurrentSegment(d) ==
    IF d.streamRef = 0 THEN d
    ELSE [d EXCEPT !.recorders = Append(@, NewRecorder),
                   !.currentMediaRecorderRef = Len(d.recorders) + 1,
                   !.currentChunks = <<>>]

\* stopCurrentSegment (lines 541-567): null unless the current recorder is
\* recording; otherwise onstop is installed and stop() called
SegmentRecording(d) ==
    /\ d.currentMediaRecorderRef # 0
    /\ d.recorders[d.currentMediaRecorderRef].state = "recording"

stopCurrentSegment(d, by, durationMs) ==
    [d EXCEPT !.recorders[d.currentMediaRecorderRef] =
                  [state |-> "inactive", pending |-> TRUE, onstop |-> by,
                   duration |-> durationMs]]

\* ondataavailable (lines 520-524): the chunk goes to currentChunksRef
PushChunk(d, r) ==
    [d EXCEPT !.currentChunks =
                  Append(@, [block |-> d.chunkCount + 1, rec |-> r]),
              !.chunkCount = @ + 1]

\* new Blob(chunks) (line 552)
SegmentBlob(chunks) == [type |-> "audio/webm", samples |-> chunks]

\* the clean-up of stopRecording (lines 738-760)
SegCleanup(d) ==
    LET r == d.currentMediaRecorderRef
        stopped == IF r # 0 /\ d.recorders[r].state # "inactive"
                   THEN [d EXCEPT !.recorders[r].state = "inactive",
                                  !.recorders[r].pending = TRUE]
                   ELSE d
    IN  [stopped EXCEPT !.streamRef = 0,
                        !.currentMediaRecorderRef = 0,
                        !.analyserRef = 0,
                        !.currentChunks = <<>>,
                        !.consecutiveSilentFrames = 0,
                        !.consecutiveSpeechFrames = 0]

\* the period of the timer (line 674) elapses
segElapse ==
    /\ draft.intervals > 0
    /\ ~draft.due
    /\ draft.now < limits.clock * FrameIntervalMs
    /\ draft' = [draft EXCEPT !.now = @ + FrameIntervalMs, !.due = TRUE]
    /\ fired' = <<>>
    /\ last' = Op("segElapse", FALSE, "")
    /\ UNCHANGED <<refs, env, options, limits, hist, calc, app>>

\* checkSilence of the draft (lines 570-633).  The closing branch calls
\* .then on what stopCurrentSegment returns: on null that is a TypeError,
\* raised out of the tick after the streaks have been updated.
segCheckSilence(silent) ==
    LET d == [draft EXCEPT !.due = FALSE]
        silentFrames == IF silent THEN d.consecutiveSilentFrames + 1 ELSE 0
        speechFrames == IF silent THEN 0 ELSE d.consecutiveSpeechFrames + 1
        counted == [d EXCEPT !.consecutiveSilentFrames = silentFrames,
                             !.consecutiveSpeechFrames = speechFrames]
        starts == /\ ~d.isSpeechDetected
                  /\ speechFrames >= SEG_MIN_SPEECH_FRAMES
        begun == IF starts
                 THEN [counted EXCEPT
                          !.isSpeechDetected = TRUE,
                          !.speechStartTime =
                              d.now - speechFrames * FrameIntervalMs]
                 ELSE counted
        ends == /\ begun.isSpeechDetected
                /\ silentFrames >= SEG_MIN_SILENCE_FRAMES
        speechDurationMs == d.now - begun.speechStartTime
    IN  /\ draft.intervals > 0
        /\ draft.due
        /\ IF d.analyserRef = 0 \/ ~d.isRecording \/ d.isPaused
           THEN /\ draft' = d
                /\ fired' = <<>>
                /\ last' = Op("segTick", silent, "return")
           ELSE IF ends /\ MeetsMinDuration(speechDurationMs)
           THEN IF SegmentRecording(begun)
                THEN /\ draft' = stopCurrentSegment(begun, "tick",
                                                    speechDurationMs)
                     /\ fired' = <<>>
                     /\ last' = Op("segTick", silent, "stopRequested")
                ELSE /\ draft' = begun
                     /\ fired' = <<>>
                     /\ last' = Op("segTick", silent, "raised")
           ELSE IF ends
           THEN /\ draft' = [begun EXCEPT
                                !.isSpeechDetected = FALSE,
                                !.speechStartTime = 0,
                                !.consecutiveSilentFrames = 0,
                                !.discardedUpTo = d.chunkCount]
                /\ fired' = <<>>
                /\ last' = Op("segTick", silent, "tooShort")
           ELSE /\ draft' = begun
                /\ fired' = IF starts THEN <<EvSpeechStart>> ELSE <<>>
                /\ last' = Op("segTick", silent,
                              IF starts THEN "start" ELSE "count")
        /\ UNCHANGED <<refs, env, options, limits, hist, calc, app>>

\* a timeslice of recorder r ends (start(100), line 535): ondataavailable
segDataAvailable(r) ==
    /\ r \in DOMAIN draft.recorders
    /\ draft.recorders[r].state = "recording"
    /\ draft.chunkCount < limits.blocks
    /\ draft' = PushChunk(draft, r)
    /\ fired' = <<>>
    /\ last' = Op("segChunk", FALSE, "")
    /\ UNCHANGED <<refs, env, options, limits, hist, calc, app>>

\* the events of a stopped recorder are dispatched: its last dataavailable
\* (pushed if it holds data), then stop.  The onstop installed by
\* stopCurrentSegment resolves the promise with the blob of the chunks or
\* with null (lines 549-563); the tick's continuation (lines 605-625) emits
\* the clip, resets the utterance and starts the next segment; the
\* continuation of stopRecording (lines 725-760) emits and cleans up.
segOnStop(r, hasData) ==
    LET rec == draft.recorders[r]
        pushed == IF hasData THEN PushChunk(draft, r) ELSE draft
        d == [pushed EXCEPT !.recorders[r].pending = FALSE,
                            !.recorders[r].onstop = "null"]
        blob == SegmentBlob(d.currentChunks)
        hasBlob == d.currentChunks # <<>>
    IN  /\ r \in DOMAIN draft.recorders
        /\ rec.pending
        /\ hasData => draft.chunkCount < limits.blocks
        /\ IF rec.onstop = "tick" /\ hasBlob
           THEN /\ draft' = startCurrentSegment(
                                [d EXCEPT !.isSpeechDetected = FALSE,
                                          !.speechStartTime = 0,
                                          !.consecutiveSilentFrames = 0])
                /\ fired' = EmitClip(blob, rec.duration)
                /\ last' = Op("segOnStop", hasData, "submit")
           ELSE IF rec.onstop = "tick"
           THEN /\ draft' = d
                /\ fired' = <<>>
                /\ last' = Op("segOnStop", hasData, "nullBlob")
           ELSE IF rec.onstop = "stop"
           THEN /\ draft' = SegCleanup(d)
                /\ fired' = IF hasBlob THEN EmitClip(blob, rec.duration)
                            ELSE <<>>
                /\ last' = Op("segOnStop", hasData,
                              IF hasBlob THEN "stopSubmit" ELSE "stopNull")
           ELSE /\ draft' = d
                /\ fired' = <<>>
                /\ last' = Op("segOnStop", hasData, "plain")
        /\ UNCHANGED <<refs, env, options, limits, hist, calc, app>>

\* startRecording of the draft up to its await (lines 636-647)
segStartRecording ==
    /\ draft.startPc = "idle"
    /\ draft.startCount < limits.starts
    /\ draft' = [draft EXCEPT !.startPc = "awaitMedia",
                              !.startCount = @ + 1]
    /\ fired' = <<>>
    /\ last' = Op("segStart", FALSE, "")
    /\ UNCHANGED <<refs, env, options, limits, hist, calc, app>>

\* getUserMedia settles: lines 649-677, or the catch (678-682)
segGetUserMediaSettled(ok) ==
    /\ draft.startPc = "awaitMedia"
    /\ IF ok
       THEN /\ draft' = [startCurrentSegment(
                             [draft EXCEPT
                                 !.startPc = "idle",
                                 !.streamRef = draft.startCount,
                                 !.analyserRef = draft.startCount,
                                 !.isRecording = TRUE,
                                 !.isSpeechDetected = FALSE,
                                 !.speechStartTime = 0,
                                 !.consecutiveSilentFrames = 0,
                                 !.consecutiveSpeechFrames = 0])
                        EXCEPT !.intervals = @ + 1,
                               !.intervalRefLive = TRUE]
            /\ fired' = <<>>
            /\ last' = Op("segStartReturned", TRUE, "started")
       ELSE /\ draft' = [draft EXCEPT !.startPc = "idle"]
            /\ fired' = StartCatch
            /\ last' = Op("segStartReturned", FALSE, "catch")
    /\ UNCHANGED <<refs, env, options, limits, hist, calc, app>>

\* stopRecording of the draft (lines 709-763): up to `await
\* stopCurrentSegment()` when that returns a promise, else to its end
segStopRecording ==
    LET d == [draft EXCEPT
                 !.intervals = IF draft.intervalRefLive THEN @ - 1 ELSE @,
                 !.intervalRefLive = FALSE,
                 !.isPaused = FALSE,
                 !.isRecording = FALSE]
        speechDurationMs == d.now - d.speechStartTime
        flush == /\ d.isSpeechDetected
                 /\ d.consecutiveSpeechFrames >= SEG_MIN_SPEECH_FRAMES
                 /\ MeetsMinDuration(speechDurationMs)
    IN  /\ IF flush /\ SegmentRecording(d)
           THEN /\ draft' = stopCurrentSegment(d, "stop", speechDurationMs)
                /\ last' = Op("segStop", FALSE, "awaitStop")
           ELSE /\ draft' = SegCleanup(d)
                /\ last' = Op("segStop", FALSE, "noSubmit")
        /\ fired' = <<>>
        /\ UNCHANGED <<refs, env, options, limits, hist, calc, app>>

\* the recorders a run can create: one per start and one per closure
RecorderIds ==
    1..(PauseStarts
          + SegFrames \div (SEG_MIN_SPEECH_FRAMES + SEG_MIN_SILENCE_FRAMES))

InitSegments ==
    /\ InitState
    /\ \E m \in {DefaultMinSpeechDuration, SegLongMinSpeechDuration} :
           options = HookOptions(m)
    /\ limits = [streak |-> 0, clock |-> SegFrames, blocks |-> MaxBlocks,
                 starts |-> PauseStarts, history |-> FALSE,
                 pauses |-> FALSE, sessions |-> FALSE]
    /\ hist = NoHistory
    /\ calc = NoCalc

NextSegments ==
    \/ segElapse
    \/ \E silent \in BOOLEAN : segCheckSilence(silent)
    \/ \E r \in RecorderIds : segDataAvailable(r)
    \/ \E r \in RecorderIds, hasData \in BOOLEAN : segOnStop(r, hasData)
    \/ segStartRecording
    \/ \E ok \in BOOLEAN : segGetUserMediaSettled(ok)
    \/ segStopRecording

SpecSegments == InitSegments /\ [][NextSegments]_vars

\* ------------------------------------------- the classifier on its own
\* isSilent applied to a snapshot of the analyser's frequencyBinCount
\* bins: the first split bins at one level, the others at another.
Levels == {0, 38, 39, 60, 77, 255}
Splits == {0, 4, 32, 64, 96, frequencyBinCount}
Snapshots ==
    {[i \in 1..frequencyBinCount |-> IF i <= split THEN a ELSE b] :
        a \in Levels, b \in Levels, split \in Splits}

ApplyIsSilent ==
    /\ calc.fn = "none"
    /\ calc' = [fn |-> "isSilent", input |-> calc.input,
                output |-> <<isSilent(calc.input)>>]
    /\ UNCHANGED <<refs, env, fired, last, options, limits, hist, app,
                   draft>>

ApplyDraw ==
    /\ calc.fn = "none"
    /\ calc' = [fn |-> "draw", input |-> calc.input,
                output |-> <<isSpeaking(calc.input)>>]
    /\ UNCHANGED <<refs, env, fired, last, options, limits, hist, app,
                   draft>>

InitEnergy ==
    /\ InitState
    /\ options = HookOptions(DefaultMinSpeechDuration)
    /\ limits = [streak |-> 0, clock |-> 0, blocks |-> 0, starts |-> 0,
                 history |-> FALSE, pauses |-> FALSE,
                 sessions |-> FALSE]
    /\ hist = NoHistory
    /\ \E bins \in Snapshots :
           calc = [fn |-> "none", input |-> bins, output |-> <<>>]

NextEnergy ==
    \/ ApplyIsSilent
    \/ ApplyDraw

SpecEnergy == InitEnergy /\ [][NextEnergy]_vars

TypeOK ==
    /\ isRecording \in BOOLEAN
    /\ isPaused \in BOOLEAN
    /\ isPausedRecording \in BOOLEAN
    /\ isSpeechDetected \in BOOLEAN
    /\ consecutiveSilentFrames \in 0..limits.streak
    /\ consecutiveSpeechFrames \in 0..limits.streak
    /\ Len(currentPcmData) <= limits.blocks
    /\ startPc \in {"idle", "awaitMedia", "awaitWorklet"}
    /\ startCount \in 0..limits.starts

\* =================================================================== claims
\* the callbacks named in a sequence of fired events
FiredCbs(f) == {f[i].cb : i \in DOMAIN f}

\* the samples of a buffer of equal-sized blocks, in arrival order
SamplesOf(pcm) ==
    [i \in 1..(Len(pcm) * SamplesPerBlock) |->
        pcm[((i - 1) \div SamplesPerBlock) + 1][((i - 1) % SamplesPerBlock) + 1]]

\* the callbacks of one clip made of the given buffer
ClipOf(pcm, d) ==
    LET wav == [type |-> "audio/wav", samples |-> SamplesOf(pcm)]
    IN  <<Ev("onSpeechEnd", d, NoBlob), Ev("onSilenceSubmit", d, wav),
          Ev("onDataAvailable", 0, wav)>>

\* this step is a tick that the engine evaluates (active, not paused)
EvaluatedTick ==
    /\ last'.op = "tick"
    /\ isRecording /\ ~isPaused /\ analyserRef # 0

\* this step is an evaluated tick on which the silent run of an open
\* utterance reaches the hold
ClosingTick ==
    /\ EvaluatedTick
    /\ isSpeechDetected
    /\ last'.arg
    /\ consecutiveSilentFrames + 1 >= MIN_SILENCE_FRAMES

\* the engine is back in ListeningSilence with an empty buffer
ClosedAfter ==
    /\ isRecording'
    /\ ~isSpeechDetected'
    /\ consecutiveSilentFrames' = 0
    /\ currentPcmData' = <<>>

\* C1: with the session active, not paused and no utterance open,
\* onSpeechStart fires on a tick exactly when that tick's non-silent verdict
\* brings the run of consecutive non-silent verdicts to MIN_SPEECH_FRAMES;
\* whenever it fires the engine enters ListeningSpeech and the run is exactly
\* MIN_SPEECH_FRAMES long, never shorter.
C1_SpeechStartHysteresis ==
    [][LET startFired == "onSpeechStart" \in FiredCbs(fired')
       IN  /\ (EvaluatedTick /\ ~isSpeechDetected) =>
                 (startFired <=>
                     (~last'.arg
                      /\ consecutiveSpeechFrames + 1 = MIN_SPEECH_FRAMES))
           /\ startFired =>
                 /\ EvaluatedTick
                 /\ ~isSpeechDetected
                 /\ isSpeechDetected'
                 /\ isRecording'
                 /\ consecutiveSpeechFrames' = MIN_SPEECH_FRAMES]_vars

C1_Witness ==
    /\ last = Op("tick", FALSE, "start")
    /\ fired = <<EvSpeechStart>>
    /\ isSpeechDetected
    /\ consecutiveSpeechFrames = MIN_SPEECH_FRAMES

\* C2 (as stated): whenever, in ListeningSpeech, the silent run reaches the
\* hold and the duration is at least minSpeechDuration, exactly one clip with
\* all buffered samples is emitted on that tick, the buffer is empty
\* afterwards and the engine is back in ListeningSilence with the silent
\* streak reset.
C2_EmitOnClosure_AsStated ==
    [][(ClosingTick /\ now - speechStartTime >= minSpeechDuration) =>
          /\ fired' = ClipOf(currentPcmData, now - speechStartTime)
          /\ ClosedAfter]_vars

\* C2 (amended): the same, provided at least one PCM block is buffered.
C2_EmitOnClosure ==
    [][(/\ ClosingTick
        /\ now - speechStartTime >= minSpeechDuration
        /\ currentPcmData # <<>>) =>
          /\ fired' = ClipOf(currentPcmData, now - speechStartTime)
          /\ ClosedAfter]_vars

C2_Witness ==
    /\ last = Op("tick", TRUE, "submit")
    /\ Len(fired) = 3
    /\ fired[2].cb = "onSilenceSubmit"
    /\ Len(fired[2].blob.samples) >= SamplesPerBlock
    /\ fired[2].duration >= minSpeechDuration
    /\ currentPcmData = <<>>
    /\ ~isSpeechDetected

\* C3: when an utterance closes with a duration below minSpeechDuration, no
\* clip is delivered (no onSilenceSubmit, no onDataAvailable), onError is not
\* invoked, the buffer is cleared and the engine is back in ListeningSilence
\* with both streaks at zero, ready for a fresh utterance.
C3_DiscardShort ==
    [][(ClosingTick /\ now - speechStartTime < minSpeechDuration) =>
          /\ FiredCbs(fired') \cap
                 {"onSilenceSubmit", "onDataAvailable", "onError"} = {}
          /\ ClosedAfter
          /\ consecutiveSpeechFrames' = 0]_vars

C3_Witness ==
    /\ last = Op("tick", TRUE, "tooShort")
    /\ fired = <<>>
    /\ isRecording
    /\ ~isSpeechDetected
    /\ currentPcmData = <<>>
    /\ pcmCount > 0

\* C4 (as stated): when the silent run reaches the hold in ListeningSpeech
\* with a sufficient duration but an empty buffer, nothing is emitted, no
\* error is raised, and the engine still leaves ListeningSpeech with the
\* silent streak reset.
C4_EmptyBufferClosure_AsStated ==
    [][(/\ ClosingTick
        /\ now - speechStartTime >= minSpeechDuration
        /\ currentPcmData = <<>>) =>
          /\ fired' = <<>>
          /\ isRecording'
          /\ ~isSpeechDetected'
          /\ consecutiveSilentFrames' = 0]_vars

\* C5 (as stated): every buffered sample was captured while the engine was in
\* ListeningSpeech; samples captured in ListeningSilence or Idle are not
\* buffered.
C5_BufferOnlyInSpeech_AsStated ==
    \A i \in DOMAIN currentPcmData :
        \A k \in DOMAIN currentPcmData[i] :
            currentPcmData[i][k].capturedIn = "ListeningSpeech"

\* C6 (as stated): stop() called with an utterance open, a duration of at
\* least minSpeechDuration and samples buffered emits exactly one final clip
\* (onSpeechEnd, onSilenceSubmit, onDataAvailable) and leaves the session
\* Idle, whatever the latest verdicts were.
C6_StopFlushes_AsStated ==
    [][(/\ last'.op = "stop"
        /\ isRecording
        /\ isSpeechDetected
        /\ now - speechStartTime >= minSpeechDuration
        /\ currentPcmData # <<>>) =>
          /\ fired' = ClipOf(currentPcmData, now - speechStartTime)
          /\ ~isRecording']_vars

\* C7 (as stated): after stop() the session is not recording, not paused, no
\* utterance is open, no tick driver runs, the buffer is empty, both streaks
\* are zero and no capture resource is held.
C7_StopReleasesAll_AsStated ==
    last.op = "stop" =>
        /\ ~isRecording
        /\ ~isPaused
        /\ ~isPausedRecording
        /\ ~isSpeechDetected
        /\ activeIntervals = {}
        /\ currentPcmData = <<>>
        /\ consecutiveSilentFrames = 0
        /\ consecutiveSpeechFrames = 0
        /\ processorRef = 0
        /\ sourceRef = 0
        /\ audioContextRef = 0
        /\ analyserRef = 0
        /\ streamRef = 0
        /\ liveStreams = {}
        /\ openContexts = {}
        /\ connectedProcessors = {}

\* C8 (as stated): the first start() of a run is all-or-nothing: if it
\* returns false, onError was invoked once, the session is Idle with no tick
\* driver and no capture resource is held; if it returns true, the engine is
\* in ListeningSilence with zero counters, an empty buffer, not paused, and
\* exactly one tick driver runs.
C8_StartAllOrNothing_AsStated ==
    (last.op = "startReturned" /\ startCount = 1) =>
        IF last.arg
        THEN /\ fired = <<>>
             /\ isRecording
             /\ ~isPaused
             /\ ~isSpeechDetected
             /\ consecutiveSilentFrames = 0
             /\ consecutiveSpeechFrames = 0
             /\ currentPcmData = <<>>
             /\ Cardinality(activeIntervals) = 1
        ELSE /\ fired = <<EvError>>
             /\ ~isRecording
             /\ activeIntervals = {}
             /\ streamRef = 0
             /\ audioContextRef = 0
             /\ sourceRef = 0
             /\ processorRef = 0
             /\ liveStreams = {}
             /\ openContexts = {}
             /\ connectedProcessors = {}

\* C9: while the session is paused, a tick or a PCM delivery leaves the speech
\* flag, the start time, both streaks and the buffer unchanged and fires no
\* callback; nothing else changes them while the session stays paused, and
\* resume() itself leaves them unchanged, so after resume they have the
\* values they had at pause.
C9_PauseFreezes ==
    [][/\ (isPaused /\ last'.op \in {"tick", "pcm"}) =>
              (UNCHANGED engine /\ fired' = <<>> /\ isPaused')
       /\ (isPaused /\ isPaused') => UNCHANGED engine
       /\ (isPaused /\ last'.op = "resume") =>
              (UNCHANGED engine /\ ~isPaused' /\ fired' = <<>>)]_vars

C9_Witness ==
    /\ last.op \in {"tick", "pcm"}
    /\ last.path = "return"
    /\ isPaused
    /\ isRecording
    /\ isSpeechDetected
    /\ currentPcmData # <<>>
    /\ consecutiveSpeechFrames >= MIN_SPEECH_FRAMES

\* C10: pause() on a paused session and resume() on a session that is not
\* paused change no ref and fire no callback; pause() always leaves the
\* session paused, so pause(); pause() equals a single pause().
C10_PauseResumeIdempotent ==
    [][/\ (last'.op = "pause" /\ isPaused) =>
              (UNCHANGED refs /\ UNCHANGED env /\ fired' = <<>>)
       /\ (last'.op = "resume" /\ ~isPaused) =>
              (UNCHANGED refs /\ UNCHANGED env /\ fired' = <<>>)
       /\ last'.op = "pause" => (isPaused' /\ isPausedRecording')]_vars

C10_Witness ==
    /\ last = Op("pause", FALSE, "return")
    /\ isPaused
    /\ isRecording
    /\ isSpeechDetected

\* C11 (as stated): time spent paused inside an utterance does not count: at
\* the closure of the utterance the emit-or-discard decision and the duration
\* reported are those of the run in which no time passed between pause() and
\* resume(), i.e. they are taken on now - speechStartTime less the paused
\* time.
C11_PauseTimeTransparent_AsStated ==
    [][ClosingTick =>
          LET d == now - hist.pausedMs - speechStartTime
          IN  /\ (d >= minSpeechDuration /\ currentPcmData # <<>>) =>
                     fired' = ClipOf(currentPcmData, d)
              /\ (d < minSpeechDuration /\ currentPcmData # <<>>) =>
                     (fired' = <<>> /\ last'.path = "tooShort")]_vars

\* Positions of a verdict sequence v (TRUE = non-silent), one verdict per
\* frame.  A speech run is confirmed at i when the MIN_SPEECH_FRAMES
\* verdicts up to i are all non-silent; silence is held at j when the silent
\* stretch ending at j is exactly MIN_SILENCE_FRAMES long.  Runs are
\* delimited by held silences: i is the first confirmation of its run when
\* every earlier confirmation is separated from i by a held silence.
ConfirmedAt(v, i) ==
    /\ i >= MIN_SPEECH_FRAMES
    /\ \A k \in (i - MIN_SPEECH_FRAMES + 1)..i : v[k]

HeldAt(v, j) ==
    /\ j >= MIN_SILENCE_FRAMES
    /\ \A k \in (j - MIN_SILENCE_FRAMES + 1)..j : ~v[k]
    /\ j > MIN_SILENCE_FRAMES => v[j - MIN_SILENCE_FRAMES]

RunsFrom(v) ==
    {i \in 1..Len(v) :
        /\ ConfirmedAt(v, i)
        /\ \A e \in 1..(i - 1) :
               ConfirmedAt(v, e) => \E k \in (e + 1)..(i - 1) : HeldAt(v, k)}

\* The runs that are followed by a held silence and whose duration, from the
\* back-dated start to the tick that closes them, reaches the minimum.
QualifyingRuns(v) ==
    {i \in RunsFrom(v) :
        \E j \in (i + 1)..Len(v) :
            /\ HeldAt(v, j)
            /\ \A k \in (i + 1)..(j - 1) : ~HeldAt(v, k)
            /\ (j - i + MIN_SPEECH_FRAMES) * FrameIntervalMs
                   >= minSpeechDuration}

\* C13: in a started, never-paused session fed one verdict per frame, the
\* number of clips emitted equals the number of speech runs of the verdict
\* sequence that were confirmed, were followed by a held silence and lasted
\* at least minSpeechDuration, and the number of onSpeechStart calls equals
\* the number of confirmed runs.
C13_ClipCount ==
    /\ hist.nClip = Cardinality(QualifyingRuns(hist.verdicts))
    /\ hist.nStart = Cardinality(RunsFrom(hist.verdicts))

C13_Witness ==
    /\ Len(hist.verdicts) >= 2
    /\ hist.verdicts[1]
    /\ ~hist.verdicts[2]
    /\ hist.nStart = 1
    /\ hist.nClip = 1

\* C12: whenever a callback of a clip fires, onSpeechStart fired earlier for
\* the utterance that is still open, and the handler (a tick or stop()) fires
\* exactly onSpeechEnd(d), onSilenceSubmit(clip, d), onDataAvailable(clip) in
\* that order, with one duration and one clip, and nothing else.
C12_CallbackOrder ==
    [][(FiredCbs(fired') \cap
            {"onSpeechEnd", "onSilenceSubmit", "onDataAvailable"} # {}) =>
          /\ hist.announced
          /\ last'.op \in {"tick", "stop"}
          /\ Len(fired') = 3
          /\ fired'[1].cb = "onSpeechEnd"
          /\ fired'[2].cb = "onSilenceSubmit"
          /\ fired'[3].cb = "onDataAvailable"
          /\ fired'[2].duration = fired'[1].duration
          /\ fired'[3].blob = fired'[2].blob
          /\ fired'[2].blob # NoBlob]_vars

C12_Witness ==
    /\ last = Op("stop", FALSE, "submit")
    /\ Len(fired) = 3
    /\ fired[1].cb = "onSpeechEnd"
    /\ fired[3].cb = "onDataAvailable"
    /\ ~hist.announced

\* The scenario has been played to its last frame.
ScenarioPlayed == Len(hist.verdicts) = ScenarioFrames

\* The duration the engine reports for the scenario's utterance: from the
\* back-dated start to the tick at which the silence has been held.
ScenarioDuration == (ScenarioSpeech + MIN_SILENCE_FRAMES) * FrameIntervalMs

\* C14 as stated: after scenario A (minSpeechDuration 0) there has been one
\* onSpeechStart, one onSpeechEnd with a duration within one frame interval
\* of 200 ms, and one clip.
C14_ScenarioA_AsStated ==
    (ScenarioPlayed /\ minSpeechDuration = 0) =>
        /\ hist.nStart = 1
        /\ hist.nEnd = 1
        /\ hist.nClip = 1
        /\ Len(hist.durations) = 1
        /\ hist.durations[1] >= 2 * FrameIntervalMs - FrameIntervalMs
        /\ hist.durations[1] <= 2 * FrameIntervalMs + FrameIntervalMs

\* C14 amended: after scenario A there has been one onSpeechStart, one
\* onSpeechEnd whose duration is the speech frames plus the silence hold
\* (1000 ms), and one clip.
C14_ScenarioA ==
    (ScenarioPlayed /\ minSpeechDuration = 0) =>
        /\ hist.nStart = 1
        /\ hist.nEnd = 1
        /\ hist.nClip = 1
        /\ hist.durations = <<ScenarioDuration>>

C14_Witness ==
    /\ ScenarioPlayed
    /\ minSpeechDuration = 0
    /\ hist.nClip = 1
    /\ hist.durations = <<ScenarioDuration>>

\* C15 as stated: after scenario B (minSpeechDuration 500) no clip has been
\* emitted.
C15_ScenarioB_AsStated ==
    (ScenarioPlayed /\ minSpeechDuration = ScenarioBMinSpeechDuration) =>
        hist.nClip = 0

\* C15 amended: after scenario B one clip has been emitted, the utterance's
\* duration of 1000 ms being no less than the minimum of 500 ms.
C15_ScenarioB ==
    (ScenarioPlayed /\ minSpeechDuration = ScenarioBMinSpeechDuration) =>
        /\ hist.nStart = 1
        /\ hist.nClip = 1
        /\ hist.durations = <<ScenarioDuration>>
        /\ ScenarioDuration >= ScenarioBMinSpeechDuration

C15_Witness ==
    /\ ScenarioPlayed
    /\ minSpeechDuration = ScenarioBMinSpeechDuration
    /\ hist.nStart = 1
    /\ hist.nEnd = 1
    /\ hist.nClip = 1

\* Reading the file back: byte at offset o, and the little-endian unsigned
\* and signed integers that start there.
ByteAt(b, o) == b[o + 1]
U16At(b, o) == ByteAt(b, o) + 256 * ByteAt(b, o + 1)
U32At(b, o) == U16At(b, o) + 65536 * U16At(b, o + 2)
I16At(b, o) == IF U16At(b, o) >= 32768 THEN U16At(b, o) - 65536
               ELSE U16At(b, o)
TagAt(b, o) == <<ByteAt(b, o), ByteAt(b, o + 1), ByteAt(b, o + 2),
                 ByteAt(b, o + 3)>>
Encoded == calc.fn = "encodeWAV"

\* C19: for an input of N samples the file is 44 + 2N bytes: 'RIFF', the
\* size 36 + 2N, 'WAVE', 'fmt ', chunk size 16, format tag 1, 1 channel,
\* sample rate 16000, byte rate 32000, block align 2, 16 bits per sample,
\* 'data', data size 2N, every integer little-endian.
C19_WavHeader ==
    Encoded =>
        LET b == calc.output
            N == Len(calc.input)
        IN  /\ Len(b) = 44 + 2 * N
            /\ \A i \in 1..Len(b) : b[i] \in 0..255
            /\ TagAt(b, 0) = <<82, 73, 70, 70>>
            /\ U32At(b, 4) = 36 + 2 * N
            /\ TagAt(b, 8) = <<87, 65, 86, 69>>
            /\ TagAt(b, 12) = <<102, 109, 116, 32>>
            /\ U32At(b, 16) = 16
            /\ U16At(b, 20) = 1
            /\ U16At(b, 22) = 1
            /\ U32At(b, 24) = 16000
            /\ U32At(b, 28) = 32000
            /\ U16At(b, 32) = 2
            /\ U16At(b, 34) = 16
            /\ TagAt(b, 36) = <<100, 97, 116, 97>>
            /\ U32At(b, 40) = 2 * N

C19_Witness ==
    /\ Encoded
    /\ Len(calc.input) >= 1
    /\ Len(calc.output) = 44 + 2 * Len(calc.input)
    /\ U32At(calc.output, 24) = 16000

\* C20: sample i of the input is stored at offset 44 + 2(i - 1) as the
\* signed 16-bit integer that is its value, clamped to [-1, 1] and scaled
\* by 32768 when negative and by 32767 otherwise, less any fraction: -1 and
\* everything below it give -32768, +1 and everything above it 32767, 0
\* gives 0, and the sign of a sample is never inverted.
C20_SampleConversion ==
    Encoded =>
        \A i \in 1..Len(calc.input) :
            LET x == calc.input[i]
                v == I16At(calc.output, 44 + 2 * (i - 1))
            IN  /\ v \in (-32768)..32767
                /\ x <= -SampleDen => v = -32768
                /\ x >= SampleDen => v = 32767
                /\ x = 0 => v = 0
                /\ (x < 0 /\ x > -SampleDen) =>
                       /\ v * SampleDen >= x * 32768
                       /\ (v - 1) * SampleDen < x * 32768
                       /\ v <= 0
                /\ (x > 0 /\ x < SampleDen) =>
                       /\ v * SampleDen <= x * 32767
                       /\ (v + 1) * SampleDen > x * 32767
                       /\ v >= 0

C20_Witness ==
    /\ Encoded
    /\ \E i, j \in 1..Len(calc.input) :
           /\ calc.input[i] > SampleDen
           /\ calc.input[j] < -SampleDen
           /\ I16At(calc.output, 44 + 2 * (i - 1)) = 32767
           /\ I16At(calc.output, 44 + 2 * (j - 1)) = -32768

\* C21 as stated: a sample s in [-1, 1] and the value decoded from the
\* integer stored for it, v / 32768, differ by at most 1/32768.
InRange(x) == x >= -SampleDen /\ x <= SampleDen
Abs(n) == IF n >= 0 THEN n ELSE -n
\* the difference of sample i and its decoded value, in units of
\* 1 / (32768 * SampleDen)
RoundTripError(i) ==
    Abs(calc.input[i] * 32768
          - I16At(calc.output, 44 + 2 * (i - 1)) * SampleDen)

C21_PcmRoundTrip_AsStated ==
    Encoded =>
        \A i \in 1..Len(calc.input) :
            InRange(calc.input[i]) => RoundTripError(i) <= SampleDen

\* C21 amended: the two differ by less than 2/32768, and by less than
\* 1/32768 when the sample is negative; the decoded value is never larger
\* in magnitude than the sample.
C21_PcmRoundTrip ==
    Encoded =>
        \A i \in 1..Len(calc.input) :
            LET x == calc.input[i]
                v == I16At(calc.output, 44 + 2 * (i - 1))
            IN  InRange(x) =>
                    /\ RoundTripError(i) < 2 * SampleDen
                    /\ x < 0 => RoundTripError(i) < SampleDen
                    /\ Abs(v) * SampleDen <= Abs(x) * 32768

C21_Witness ==
    /\ Encoded
    /\ \E i \in 1..Len(calc.input) :
           /\ calc.input[i] > 0
           /\ calc.input[i] < SampleDen
           /\ RoundTripError(i) > SampleDen
           /\ RoundTripError(i) < 2 * SampleDen

\* C22 as stated: for a snapshot of N bins the verdict is silent exactly
\* when the sum of bins 4..N-1 divided by N - 4 and by 255 is below the
\* threshold; the normalized energy the code computes lies in [0, 1] and is
\* 1 when every counted bin is 255.
Classified == calc.fn = "isSilent"
CountedSum(bins) == SumFrom(bins, SkipBins + 1)
CountedBins(bins) == Len(bins) - SkipBins

C22_EnergyClassifier_AsStated ==
    Classified =>
        LET bins == calc.input
            r == calc.output[1]
        IN  /\ r.silent <=>
                   CountedSum(bins) * SilenceThresholdDen
                       < SilenceThresholdNum * CountedBins(bins) * 255
            /\ r.sum >= 0
            /\ r.sum <= r.count * 255
            /\ (\A i \in (SkipBins + 1)..Len(bins) : bins[i] = 255) =>
                   r.sum = r.count * 255

\* C23 as stated: a tick closes an open utterance by silence only when the
\* run of consecutive silent verdicts, this tick's included, has lasted at
\* least the silenceDuration option.
SilenceClosure ==
    /\ last'.op = "tick"
    /\ last'.path \in {"submit", "tooShort", "nullBlob"}

C23_SilenceDurationHonoured_AsStated ==
    [][SilenceClosure =>
          (consecutiveSilentFrames + 1) * FrameIntervalMs
              >= options.silenceDuration]_vars

\* C24: onSpeechStart fires only on a tick of a recording session in which
\* no utterance is open, and an open utterance stops being open only by a
\* closing tick (clip emitted, or utterance discarded as too short) or by
\* start() beginning a new session with an empty buffer; so between two
\* onSpeechStart events of a session the first utterance has been closed.
C24_OneOpenUtterance ==
    [][/\ ("onSpeechStart" \in FiredCbs(fired')) =>
              /\ last'.op = "tick"
              /\ isRecording
              /\ ~isSpeechDetected
              /\ isSpeechDetected'
       /\ (isSpeechDetected /\ ~isSpeechDetected') =>
              \/ /\ last'.op = "tick"
                 /\ last'.path \in {"submit", "tooShort"}
                 /\ currentPcmData' = <<>>
              \/ /\ last'.op = "startReturned"
                 /\ currentPcmData' = <<>>]_vars

\* the second utterance of a session has just been announced
C24_Witness ==
    /\ last = Op("tick", FALSE, "start")
    /\ isRecording
    /\ isSpeechDetected
    /\ hist.nStart = 2

\* C25 as stated: once stop() has returned, a step other than a new call
\* of start() leaves the session Idle: not recording, no tick driver, no
\* capture resource acquired, the buffer empty and no speech callback fired.
C25_StopSafeAnyTime_AsStated ==
    [][(last.op = "stop" /\ last'.op # "start") =>
          /\ ~isRecording'
          /\ activeIntervals' = activeIntervals
          /\ liveStreams' = liveStreams
          /\ openContexts' = openContexts
          /\ connectedProcessors' = connectedProcessors
          /\ currentPcmData' = <<>>
          /\ FiredCbs(fired') \subseteq {"onError"}]_vars

\* C26 as stated: after a tick on which a callback of the submission threw
\* the engine is where a successful closure leaves it: recording, no
\* utterance open, the silent streak at zero and the buffer empty.
C26_FailingTickIsolated_AsStated ==
    [][(last'.op = "tick" /\ last'.path = "raised") => ClosedAfter]_vars

\* C27 as stated: at most one tick driver is active in every state, and
\* after stop() none is.
C27_SingleTickDriver_AsStated ==
    /\ Cardinality(activeIntervals) <= 1
    /\ last.op = "stop" => activeIntervals = {}

\* C28 as stated: whenever an open utterance is closed, by a tick that
\* emits or discards it or by stop(), onSpeechEnd is called in that handler.
UtteranceClosure ==
    /\ isRecording
    /\ isSpeechDetected
    /\ \/ last'.op = "stop"
       \/ last'.op = "tick" /\ last'.path \in {"submit", "tooShort"}

C28_StartMatchedByEnd_AsStated ==
    [][UtteranceClosure => "onSpeechEnd" \in FiredCbs(fired')]_vars

\* the blocks of a buffer are numbered in arrival order, none of them later
\* than the last delivery
ArrivalOrder(pcm, delivered) ==
    /\ \A i \in 1..Len(pcm) : pcm[i][1].block \in 1..delivered
    /\ \A i, j \in 1..Len(pcm) : i < j => pcm[i][1].block < pcm[j][1].block

\* C29: in every step the buffer either stays, is emptied, or gains the
\* block just delivered, which is a new one, at its end, so that it is
\* always in arrival order; every clip consists of all the samples of the
\* buffer in that order, and the handler that emits it, like every closure
\* (emit or discard, by a tick or by stop), leaves the buffer empty: a block
\* is in at most one clip and nothing is carried into the next utterance.
C29_BufferHandOver ==
    [][/\ ArrivalOrder(currentPcmData', pcmCount')
       /\ \/ currentPcmData' = currentPcmData
          \/ currentPcmData' = <<>>
          \/ /\ pcmCount' = pcmCount + 1
             /\ Len(currentPcmData') = Len(currentPcmData) + 1
             /\ SubSeq(currentPcmData', 1, Len(currentPcmData))
                    = currentPcmData
             /\ currentPcmData'[Len(currentPcmData')][1].block = pcmCount'
       /\ \A k \in DOMAIN fired' :
              fired'[k].cb \in {"onSilenceSubmit", "onDataAvailable"} =>
                  /\ currentPcmData # <<>>
                  /\ fired'[k].blob.samples = SamplesOf(currentPcmData)
                  /\ currentPcmData' = <<>>
       /\ (\/ last'.op = "stop"
           \/ last'.op = "tick" /\ last'.path \in {"submit", "tooShort"}) =>
              currentPcmData' = <<>>]_vars

\* a clip of two blocks has just been handed over
C29_Witness ==
    /\ last.path = "submit"
    /\ Len(fired) = 3
    /\ fired[3].cb = "onDataAvailable"
    /\ Len(fired[3].blob.samples) = 2 * SamplesPerBlock
    /\ fired[3].blob.samples[1].block = 1
    /\ fired[3].blob.samples[2 * SamplesPerBlock].block = 2
    /\ currentPcmData = <<>>

\* C30 as stated: when the upload of a clip resolves, the text recognized
\* in it is stored on that clip, and no other clip changes.
C30_TranscriptionToRightClip_AsStated ==
    [][last'.op = "uploadResolved" =>
          \A u \in app.uploads \ app'.uploads :
              app'.voiceClips = WithTranscription(app.voiceClips, u, u)]_vars

\* C31 as stated: when App unmounts while the recorder's session is active,
\* the cleanup calls stopRecording and the session does not outlive App.
C31_UnmountStopsRecording_AsStated ==
    [][(app.mounted /\ ~app'.mounted /\ app.recorderActive) =>
          (last'.arg /\ ~app'.recorderActive)]_vars

\* C36 as stated: a response to an upload started during a consultation that
\* has since been ended adds no message, symptom or transcription to what
\* App shows, on the home page or in a later consultation.
C36_ConsultationIsolation_AsStated ==
    [][last'.op = "uploadResolved" =>
          \A u \in app.uploads \ app'.uploads :
              app.uploadedIn[u] # app.conversationIdRef =>
                  /\ app'.messages = app.messages
                  /\ app'.symptoms = app.symptoms
                  /\ app'.voiceClips = app.voiceClips]_vars

\* C16: the minimum duration is inclusive: an utterance that closes with a
\* duration equal to minSpeechDuration is emitted, one that closes one frame
\* interval shorter is discarded, and stop() compares the same way where it
\* looks at the open utterance.
C16_InclusiveMinDuration ==
    [][/\ (/\ ClosingTick
           /\ currentPcmData # <<>>
           /\ now - speechStartTime = minSpeechDuration) =>
              fired' = ClipOf(currentPcmData, minSpeechDuration)
       /\ (/\ ClosingTick
           /\ now - speechStartTime = minSpeechDuration - FrameIntervalMs) =>
              (fired' = <<>> /\ ~isSpeechDetected' /\ currentPcmData' = <<>>)
       /\ (/\ last'.op = "stop"
           /\ isSpeechDetected
           /\ consecutiveSpeechFrames >= MIN_SPEECH_FRAMES
           /\ currentPcmData # <<>>
           /\ now - speechStartTime = minSpeechDuration) =>
              fired' = ClipOf(currentPcmData, minSpeechDuration)
       /\ (/\ last'.op = "stop"
           /\ isSpeechDetected
           /\ now - speechStartTime = minSpeechDuration - FrameIntervalMs) =>
              fired' = <<>>]_vars

C16_Witness ==
    /\ last.op \in {"tick", "stop"}
    /\ last.path = "submit"
    /\ Len(fired) = 3
    /\ fired[1].duration = minSpeechDuration

\* C17: on every speech-start transition the start time is set to now less
\* MIN_SPEECH_FRAMES frame intervals, and the speech streak used for the
\* back-dating is exactly MIN_SPEECH_FRAMES.
C17_BackdatedStart ==
    [][("onSpeechStart" \in FiredCbs(fired')) =>
          /\ consecutiveSpeechFrames' = MIN_SPEECH_FRAMES
          /\ speechStartTime' = now - MIN_SPEECH_FRAMES * FrameIntervalMs
          /\ isSpeechDetected']_vars

C17_Witness ==
    /\ last = Op("tick", FALSE, "start")
    /\ isSpeechDetected
    /\ now > 10 * FrameIntervalMs
    /\ speechStartTime = now - MIN_SPEECH_FRAMES * FrameIntervalMs

\* C18: an evaluated tick with a non-silent verdict leaves the silent streak
\* at zero and one with a silent verdict leaves the speech streak at zero; in
\* every state at most one of the streaks is non-zero, and no handler fires
\* both onSpeechStart and a speech end.
C18_OppositeStreakReset ==
    [][/\ (EvaluatedTick /\ ~last'.arg) => consecutiveSilentFrames' = 0
       /\ (EvaluatedTick /\ last'.arg) => consecutiveSpeechFrames' = 0
       /\ consecutiveSilentFrames' = 0 \/ consecutiveSpeechFrames' = 0
       /\ ~(/\ "onSpeechStart" \in FiredCbs(fired')
            /\ \/ "onSpeechEnd" \in FiredCbs(fired')
               \/ last'.path \in {"submit", "tooShort", "nullBlob"})]_vars

C18_Witness ==
    /\ last = Op("tick", FALSE, "count")
    /\ isSpeechDetected
    /\ consecutiveSpeechFrames = 1
    /\ consecutiveSilentFrames = 0

\* C34: with one tick every frame interval and no pause, every closure by
\* silence has a duration of at least MIN_SPEECH_FRAMES + MIN_SILENCE_FRAMES
\* frame intervals, and with the default minSpeechDuration no closure takes
\* the "too short, discarded" branch.
C34_ClosureDurationLowerBound ==
    [][SilenceClosure =>
          /\ now - speechStartTime >=
                 (MIN_SPEECH_FRAMES + MIN_SILENCE_FRAMES) * FrameIntervalMs
          /\ minSpeechDuration = DefaultMinSpeechDuration =>
                 last'.path # "tooShort"]_vars

\* a clip emitted with exactly the least duration, under the default option
C34_Witness ==
    /\ last = Op("tick", TRUE, "submit")
    /\ minSpeechDuration = DefaultMinSpeechDuration
    /\ Len(fired) = 3
    /\ fired[1].duration =
           (MIN_SPEECH_FRAMES + MIN_SILENCE_FRAMES) * FrameIntervalMs

\* C35: stop() called with no session active (a second time, or before any
\* start has succeeded) fires no callback and leaves the engine Idle with an
\* empty buffer; a stop() that directly follows a stop() changes nothing at
\* all, so a clip flushed by the first is not emitted again.
C35_StopIdempotent ==
    [][(last'.op = "stop" /\ ~isRecording) =>
          /\ fired' = <<>>
          /\ ~isRecording' /\ ~isPaused' /\ ~isPausedRecording'
          /\ currentPcmData' = <<>>
          /\ consecutiveSpeechFrames' = 0 /\ consecutiveSilentFrames' = 0
          /\ last.op = "stop" => (refs' = refs /\ env' = env)]_vars

\* stop() called again after a stop() that ended a session in mid-utterance
C35_Witness ==
    /\ last = Op("stop", TRUE, "noSubmit")
    /\ isSpeechDetected
    /\ startCount > 0
    /\ fired = <<>>

\* C37: every clip emitted holds only blocks delivered after the start()
\* of its session returned true, and each start() that returns true leaves
\* the speech flag, the start time, both streaks, both paused flags and the
\* buffer at their initial values whatever the earlier session left.
C37_SessionIsolation ==
    [][/\ \A i \in DOMAIN fired' :
              HasBlob(fired'[i].blob) =>
                  \A k \in DOMAIN fired'[i].blob.samples :
                      fired'[i].blob.samples[k].block > hist.sessionFrom
       /\ (last'.op = "startReturned" /\ last'.arg) =>
              /\ ~isSpeechDetected' /\ speechStartTime' = 0
              /\ consecutiveSpeechFrames' = 0
              /\ consecutiveSilentFrames' = 0
              /\ ~isPaused' /\ ~isPausedRecording'
              /\ currentPcmData' = <<>>]_vars

\* a clip emitted in a session that started after blocks had been delivered
C37_Witness ==
    /\ last.path = "submit"
    /\ Len(fired) = 3
    /\ hist.sessionFrom > 0
    /\ startCount = MaxStarts

\* C38 as stated: for the same snapshot and threshold the "speaking"
\* indicator of AudioWaveform is on exactly when the verdict of isSilent for
\* that snapshot is not silent.
C38_IndicatorAgreement_AsStated ==
    calc.fn = "draw" =>
        (calc.output[1].speaking <=> ~isSilent(calc.input).silent)

\* C32 as stated: a tick of the per-utterance-recorder draft that runs
\* after a closing tick has asked the recorder to stop and before the stop
\* callback has reset the state neither raises an error nor asks for a
\* second closure, and the stop callback emits one clip and ends the
\* utterance.
ClosurePending ==
    \E r \in DOMAIN draft.recorders :
        draft.recorders[r].pending /\ draft.recorders[r].onstop = "tick"

C32_AsyncClosureOnce_AsStated ==
    [][/\ (last'.op = "segTick" /\ ClosurePending) =>
              last'.path \notin {"raised", "stopRequested"}
       /\ (last'.op = "segOnStop" /\ last'.path = "submit") =>
              (Len(fired') = 3 /\ ~draft'.isSpeechDetected)]_vars

\* C33 as stated: when the draft discards an utterance as too short the
\* chunks recorded so far are dropped, and no clip emitted later holds a
\* chunk recorded during or before the discarded utterance.
C33_DiscardClearsSegment_AsStated ==
    [][/\ (last'.op = "segTick" /\ last'.path = "tooShort") =>
              draft'.currentChunks = <<>>
       /\ \A i \in DOMAIN fired' :
              (last'.op = "segOnStop" /\ HasBlob(fired'[i].blob)) =>
                  \A k \in DOMAIN fired'[i].blob.samples :
                      fired'[i].blob.samples[k].block > draft.discardedUpTo
      ]_vars

====
